---- MODULE Spec2Model ----
(***************************************************************************)
(* Job state store (lib/syncStatus.js), lock-file cancellation sentinel    *)
(* and the run / stop handlers (routes/reprocess.js, routes/onboarding.js, *)
(* lib/daily-soft-category-agent.js) of the onboarding service.            *)
(*                                                                         *)
(* Every `await` on the database or the file system is a point where       *)
(* another request handler may run, so each handler is cut into one action *)
(* per database / file-system effect.                                      *)
(***************************************************************************)
EXTENDS Integers, Sequences, FiniteSets, Bags, TLC

\* Resource keys (dbName of the authenticated user).
Keys == {"db1", "db2"}

\* Runs that may be in flight at the same time, stop requests likewise.
MaxRuns == 2
MaxStops == 2

\* Firings of the cron task.
MaxTicks == 2

Terminal == {"done", "error", "stopped"}

\* lib/reprocess-products.js is a placeholder: the run handles no product.
ReprocessItems == 0

VARIABLES
  store,  \* store[k]: the sync_status document of database k, or NoDocument
  lock,   \* lock[k]: the file <tmpdir>/reprocessing_<k>.lock exists
  dbUp,   \* the MongoDB client accepts operations
  runs,   \* the bag of background runs in flight (reprocess, onboarding sync)
  stops,  \* the bag of POST /api/reprocess/stop handlers in progress
  stopResp,    \* the last response of a stop handler
  agentResult, \* the last result object returned by processSingleUser
  resp,   \* the last response of a read (status, logs, getJobState)
  sel,    \* the last call of fallbackCategorySelection: arguments and result
  agent,  \* the run of runDailySoftCategoryAgent: users, position, results
  reonboard, \* POST /api/onboarding with an API key: stored user, body, merge
  users,   \* users[e]: the document of users.users with email e, or NoUser
  onboard, \* onboard[r]: the POST /api/onboarding handler of request r
  caller,  \* req.user of the authenticated requests: the stored user
  trigger  \* POST /api/soft-category-agent/run: response, background run

vars == <<store, lock, dbUp, runs, stops, stopResp, agentResult, resp,
          sel, agent, reonboard,
          users, onboard, caller, trigger>>

-----------------------------------------------------------------------------
\* The job state store: lib/syncStatus.js

\* findOne({dbName}) when the collection holds no document for the key.
NoDocument == [missing |-> TRUE]

JobRecord(state, progress, done, total) ==
  [state |-> state, progress |-> progress, done |-> done, total |-> total]

DefaultState == JobRecord("idle", 0, 0, 0)

\* setJobState as if it replaced the document by the fields it is given.
setJobStateReplacing(k, state, progress, done, total) ==
  [store EXCEPT ![k] = JobRecord(state, progress, done, total)]

\* setJobState as if a progress that is not given were stored as -1.
setJobStateNoProgress(k, state, progress, done, total) ==
  [store EXCEPT ![k] =
     JobRecord(state, IF progress = 0 THEN -1 ELSE progress, done, total)]

\* updateOne({dbName}, {$set: {...}}, {upsert: true}); progress, done and
\* total default to 0 at every call site of the repository. $set replaces
\* the fields it names and keeps the others of the document; with no
\* document, one is inserted with the fields of $set.
setJobState(k, state, progress, done, total) ==
  LET doc == store[k]
      set == JobRecord(state, progress, done, total)
  IN [store EXCEPT ![k] =
        IF doc = NoDocument THEN set
        ELSE [f \in DOMAIN doc \cup DOMAIN set |->
                IF f \in DOMAIN set THEN set[f] ELSE doc[f]]]

\* status?.logs || []
Logs(doc) == IF "logs" \in DOMAIN doc THEN doc.logs ELSE <<>>

\* Log messages of one record.
MaxLogs == 2

\* A document of sync_status as the sync library leaves it after a run: the
\* four fields of setJobState, the logs of the run, its timestamps.
LoggedRecord ==
  [state |-> "done", progress |-> 0, done |-> 0, total |-> 0,
   logs |-> <<"message">>, startedAt |-> "t0", finishedAt |-> "t1"]

\* appendLog(resourceKey, message) of the sync library, during a run: the
\* message is added at the end of logs, the other fields stay.
AppendLog(k) ==
  /\ dbUp
  /\ store[k] # NoDocument
  /\ \E d \in BagToSet(runs) : d.key = k
  /\ Len(Logs(store[k])) < MaxLogs
  /\ store' = [store EXCEPT ![k] =
                 [f \in DOMAIN store[k] \cup {"logs"} |->
                    IF f = "logs" THEN Append(Logs(store[k]), "message")
                                  ELSE store[k][f]]]
  /\ UNCHANGED <<lock, dbUp, runs, stops, stopResp, agentResult, resp,
                 sel, agent, reonboard, users, onboard, caller, trigger>>

\* setJobState whose catch block logs the error and returns normally.
AwaitSetJobStateSwallowed(k, state) ==
  [threw |-> FALSE,
   store |-> IF dbUp THEN setJobState(k, state, 0, 0, 0) ELSE store]

\* `await setJobState(k, state)` as its caller sees it: the document is
\* upserted, or updateOne rejects, the catch block logs and rethrows, and the
\* collection is as it was.
AwaitSetJobState(k, state) ==
  IF dbUp THEN [threw |-> FALSE, store |-> setJobState(k, state, 0, 0, 0)]
          ELSE [threw |-> TRUE, store |-> store]

\* getJobState without the `|| {...}` default: the raw findOne result.
getJobStateNoDefault(k) == store[k]

\* return status || { state: "idle", progress: 0, done: 0, total: 0 }
getJobState(k) ==
  IF store[k] = NoDocument THEN DefaultState ELSE store[k]

\* JavaScript `x || 0` on a number.
OrZero(x) == IF x = 0 THEN 0 ELSE x

\* GET /api/onboarding/status: status?.state || "idle", status?.progress || 0 ...
StatusBody(k) ==
  LET status == store[k] IN
  IF status = NoDocument
    THEN JobRecord("idle", 0, 0, 0)
    ELSE JobRecord(status.state, OrZero(status.progress),
                   OrZero(status.done), OrZero(status.total))

\* GET /api/reprocess/logs: the same four fields; the logs array and the
\* timestamps of the body are left out, no handler of these sources
\* writes them.
LogsBody(k) ==
  LET status == store[k] IN
  IF status = NoDocument
    THEN JobRecord("idle", 0, 0, 0)
    ELSE JobRecord(status.state, OrZero(status.progress),
                   OrZero(status.done), OrZero(status.total))

NoResp == [op |-> "none", key |-> "none", code |-> 0, body |-> NoDocument]

\* A read handler's response: 200 with the body, or 500 when the database
\* operation rejects.
ReadResp(op, k, body) ==
  IF dbUp THEN [op |-> op, key |-> k, code |-> 200, body |-> body]
          ELSE [op |-> op, key |-> k, code |-> 500, body |-> NoDocument]

GetJobState(k) ==
  /\ resp' = ReadResp("getJobState", k, getJobState(k))
  /\ UNCHANGED <<store, lock, dbUp, runs, stops, stopResp, agentResult,
                 sel, agent, reonboard,
                 users, onboard, caller, trigger>>

StatusRequest(k) ==
  /\ resp' = ReadResp("status", k, StatusBody(k))
  /\ UNCHANGED <<store, lock, dbUp, runs, stops, stopResp, agentResult,
                 sel, agent, reonboard,
                 users, onboard, caller, trigger>>

LogsRequest(k) ==
  /\ resp' = ReadResp("logs", k, LogsBody(k))
  /\ UNCHANGED <<store, lock, dbUp, runs, stops, stopResp, agentResult,
                 sel, agent, reonboard,
                 users, onboard, caller, trigger>>

-----------------------------------------------------------------------------
\* Background runs

One(x) == SetToBag({x})

\* A run in flight, from its write of "running" to its last write. stopSeen
\* records that the lock file of a reprocess run's key was removed by a stop
\* request while the run was in flight.
NewRun(kind, k) == [kind |-> kind, key |-> k, pc |-> "run", stopSeen |-> FALSE]

InFlight == BagToSet(runs)

RunsInFlight(k) == {d \in InFlight : d.key = k}

\* A start that launches the background run without recording "running".
ReprocessStartNoWrite(k) ==
  /\ BagCardinality(runs) < MaxRuns
  /\ runs' = runs (+) One(NewRun("reprocess", k))
  /\ UNCHANGED <<store, lock, dbUp, stops, stopResp, agentResult, resp,
                 sel, agent, reonboard,
                 users, onboard, caller, trigger>>

\* POST /api/reprocess: await setJobState(dbName, "running"), then
\* processReprocessInBackground(payload) without await. A rejected write is
\* answered 500 and nothing is started.
ReprocessStart(k) ==
  /\ BagCardinality(runs) < MaxRuns
  /\ LET w == AwaitSetJobState(k, "running") IN
       /\ store' = w.store
       /\ runs' = IF w.threw THEN runs
                             ELSE runs (+) One(NewRun("reprocess", k))
  /\ UNCHANGED <<lock, dbUp, stops, stopResp, agentResult, resp,
                 sel, agent, reonboard,
                 users, onboard, caller, trigger>>

\* processReprocessInBackground, try block: reprocessProducts(payload) (the
\* placeholder returns at once), then await setJobState(dbName, "done").
ReprocessDone(d) ==
  /\ d.kind = "reprocess"
  /\ d.pc = "run"
  /\ LET w == AwaitSetJobState(d.key, "done") IN
       /\ store' = w.store
       /\ runs' = IF w.threw
                    THEN (runs (-) One(d)) (+) One([d EXCEPT !.pc = "catch"])
                    ELSE runs (-) One(d)
  /\ UNCHANGED <<lock, dbUp, stops, stopResp, agentResult, resp,
                 sel, agent, reonboard,
                 users, onboard, caller, trigger>>

\* processReprocessInBackground, catch block: await setJobState(dbName, "error").
ReprocessCatch(d) ==
  /\ d.kind = "reprocess"
  /\ d.pc = "catch"
  /\ store' = AwaitSetJobState(d.key, "error").store
  /\ runs' = runs (-) One(d)
  /\ UNCHANGED <<lock, dbUp, stops, stopResp, agentResult, resp,
                 sel, agent, reonboard,
                 users, onboard, caller, trigger>>

-----------------------------------------------------------------------------
\* POST /api/reprocess/stop

NoStopResp == [key |-> "none", code |-> 0, message |-> "none"]

\* 200 "Stop signal sent successfully. Processing will halt after current product."
StopSent(k) == [key |-> k, code |-> 200, message |-> "sent"]

\* 200 "Process already stopped or finished."
StopAlready(k) == [key |-> k, code |-> 200, message |-> "already"]

\* 500 with the error's message.
StopError(k) == [key |-> k, code |-> 500, message |-> "error"]

\* catch (accessError) with code ENOENT, raised by fs.access: the lock file
\* is not there.
AccessENOENT(k) == StopAlready(k)

\* fs.unlink outside the inner try: its ENOENT would reach the outer catch.
UnlinkENOENTRethrown(k) == StopError(k)

\* The same catch, raised by fs.unlink: another stop removed the file after
\* this handler's fs.access.
UnlinkENOENT(k) == StopAlready(k)

Stopping == BagToSet(stops)

\* await fs.access(lockFilePath). afterRun records that the request arrived
\* when the key's record was terminal and no run was in flight.
StopAccess(k) ==
  /\ BagCardinality(stops) < MaxStops
  /\ IF lock[k]
       THEN /\ stops' = stops (+) One([key |-> k, pc |-> "unlink",
                                       afterRun |-> /\ store[k] # NoDocument
                                                    /\ store[k].state \in Terminal
                                                    /\ RunsInFlight(k) = {}])
            /\ UNCHANGED stopResp
       ELSE /\ stopResp' = AccessENOENT(k)
            /\ UNCHANGED stops
  /\ UNCHANGED <<store, lock, dbUp, runs, agentResult, resp,
                 sel, agent, reonboard,
                 users, onboard, caller, trigger>>

MarkStopSeen(k, d) ==
  IF d.key = k /\ d.kind = "reprocess" THEN [d EXCEPT !.stopSeen = TRUE] ELSE d

\* await fs.unlink(lockFilePath)
StopUnlink(s) ==
  /\ s.pc = "unlink"
  /\ IF lock[s.key]
       THEN /\ lock' = [lock EXCEPT ![s.key] = FALSE]
            /\ stops' = (stops (-) One(s)) (+) One([s EXCEPT !.pc = "write"])
            /\ runs' = BagOfAll(LAMBDA d : MarkStopSeen(s.key, d), runs)
            /\ UNCHANGED stopResp
       ELSE /\ stopResp' = UnlinkENOENT(s.key)
            /\ stops' = stops (-) One(s)
            /\ UNCHANGED <<lock, runs,
                           users, onboard, caller, trigger>>
  /\ UNCHANGED <<store, dbUp, agentResult, resp,
                 sel, agent, reonboard,
                 users, onboard, caller, trigger>>

\* await setJobState(dbName, "stopped"), then the 200 response; a rejected
\* write is rethrown by the inner catch and answered 500 by the outer one.
StopWrite(s) ==
  /\ s.pc = "write"
  /\ LET w == AwaitSetJobState(s.key, "stopped") IN
       /\ store' = w.store
       /\ stopResp' = IF w.threw THEN StopError(s.key) ELSE StopSent(s.key)
  /\ stops' = stops (-) One(s)
  /\ UNCHANGED <<lock, dbUp, runs, agentResult, resp,
                 sel, agent, reonboard,
                 users, onboard, caller, trigger>>

-----------------------------------------------------------------------------
\* POST /api/onboarding, from "mark job=running" on

OnboardStart(k) ==
  /\ BagCardinality(runs) < MaxRuns
  /\ LET w == AwaitSetJobState(k, "running") IN
       /\ store' = w.store
       /\ runs' = IF w.threw THEN runs
                             ELSE runs (+) One(NewRun("onboard", k))
  /\ UNCHANGED <<lock, dbUp, stops, stopResp, agentResult, resp,
                 sel, agent, reonboard,
                 users, onboard, caller, trigger>>

\* The platform sync returned its logs: await setJobState(dbName, "done").
\* A rejected write is caught by the sync's catch block.
OnboardDone(d) ==
  /\ d.kind = "onboard"
  /\ d.pc = "run"
  /\ LET w == AwaitSetJobState(d.key, "done") IN
       /\ store' = w.store
       /\ runs' = IF w.threw
                    THEN (runs (-) One(d)) (+) One([d EXCEPT !.pc = "catch"])
                    ELSE runs (-) One(d)
  /\ UNCHANGED <<lock, dbUp, stops, stopResp, agentResult, resp,
                 sel, agent, reonboard,
                 users, onboard, caller, trigger>>

\* The platform sync (processShopify, processWooProducts, ...) rejected;
\* catch (err): await setJobState(dbName, "error"), then 500. A rejected
\* write goes to the outer catch, which writes nothing.
OnboardFail(d) ==
  /\ d.kind = "onboard"
  /\ d.pc = "run"
  /\ store' = AwaitSetJobState(d.key, "error").store
  /\ runs' = runs (-) One(d)
  /\ UNCHANGED <<lock, dbUp, stops, stopResp, agentResult, resp,
                 sel, agent, reonboard,
                 users, onboard, caller, trigger>>

\* The same catch block, entered because the write of "done" was rejected.
OnboardCatch(d) ==
  /\ d.kind = "onboard"
  /\ d.pc = "catch"
  /\ store' = AwaitSetJobState(d.key, "error").store
  /\ runs' = runs (-) One(d)
  /\ UNCHANGED <<lock, dbUp, stops, stopResp, agentResult, resp,
                 sel, agent, reonboard,
                 users, onboard, caller, trigger>>

-----------------------------------------------------------------------------
\* Discovery engine: lib/daily-soft-category-agent.js

NoResult == [status |-> "none", dbName |-> "none"]

\* processSingleUser with a non-empty selection: it calls
\* reprocessProducts(payload) itself, without await and without any
\* setJobState, and returns {status: 'success', dbName, ...}; the placeholder
\* run is over when the call returns.
DiscoveryRun(k) ==
  /\ agentResult' = [status |-> "success", dbName |-> k]
  /\ UNCHANGED <<store, lock, dbUp, runs, stops, stopResp, resp, sel, agent, reonboard,
                 users, onboard, caller, trigger>>

-----------------------------------------------------------------------------
\* Term selection: analyzePotentialCategories and fallbackCategorySelection
\* of lib/daily-soft-category-agent.js

\* processSingleUser passes 5 as maxTerms.
maxTerms == 5

\* Entries of a potentialSoftCategories object handed to one selection.
MaxCandidates == 6

Max(a, b) == IF a >= b THEN a ELSE b
Min(a, b) == IF a <= b THEN a ELSE b

Range(s) == {s[i] : i \in 1..Len(s)}

\* One entry of Object.entries(potentialCategories): the term and its data.
\* firstSeen and lastSeen are whole days before now.
Candidate(term, count, firstSeen, lastSeen) ==
  [term |-> term, count |-> count, firstSeen |-> firstSeen,
   lastSeen |-> lastSeen]

\* Math.max(0, 100 - daysSinceLastSeen)
recencyScore(c) == Max(0, 100 - c.lastSeen)

\* Math.min(100, daysActive * 2), daysActive = lastSeen - firstSeen in days
persistenceScore(c) == Min(100, (c.firstSeen - c.lastSeen) * 2)

\* The score with the recency and persistence weights exchanged.
totalScoreSwapped(c) ==
  c.count * 5 + recencyScore(c) * 2 + persistenceScore(c) * 3

\* count * 0.5 + recencyScore * 0.3 + persistenceScore * 0.2, in tenths.
totalScore(c) ==
  c.count * 5 + recencyScore(c) * 3 + persistenceScore(c) * 2

\* x put into s, which is in descending score order, behind every element
\* whose score is at least its own.
InsertByScore(x, s) ==
  LET k == Cardinality({i \in 1..Len(s) : totalScore(s[i]) >= totalScore(x)})
  IN SubSeq(s, 1, k) \o <<x>> \o SubSeq(s, k + 1, Len(s))

\* .sort((a, b) => b.totalScore - a.totalScore): descending, and stable
\* (Array.prototype.sort keeps equal elements in their order).
RECURSIVE SortByScore(_)
SortByScore(s) ==
  IF s = <<>> THEN <<>>
  ELSE InsertByScore(s[Len(s)], SortByScore(SubSeq(s, 1, Len(s) - 1)))

\* The scorer as if no entry were skipped.
fallbackCategorySelectionAll(potentialCategories, existingSoftCategories, mt) ==
  LET sorted == SortByScore(potentialCategories)
      sliced == SubSeq(sorted, 1, Min(mt, Len(sorted)))
  IN [i \in 1..Len(sliced) |-> sliced[i].term]

\* fallbackCategorySelection(potentialCategories, existingSoftCategories,
\* maxTerms): entries whose term is in existingSoftCategories map to null and
\* are filtered out, the rest is sorted, sliced to maxTerms and mapped to
\* its terms.
fallbackCategorySelection(potentialCategories, existingSoftCategories, mt) ==
  LET scored == SelectSeq(potentialCategories,
                          LAMBDA c : c.term \notin Range(existingSoftCategories))
      sorted == SortByScore(scored)
      sliced == SubSeq(sorted, 1, Min(mt, Len(sorted)))
  IN [i \in 1..Len(sliced) |-> sliced[i].term]

NoSelection ==
  [op |-> "none", potentialCategories |-> <<>>,
   existingSoftCategories |-> <<>>, selectedTerms |-> <<>>]

\* Data of the candidates offered to the scorer: A and B of the scoring
\* scenario, one that ties with A, one old enough for both clamps.
Profiles ==
  { [count |-> 10, firstSeen |-> 10, lastSeen |-> 0],
    [count |-> 3, firstSeen |-> 3, lastSeen |-> 3],
    [count |-> 18, firstSeen |-> 0, lastSeen |-> 0],
    [count |-> 2, firstSeen |-> 200, lastSeen |-> 120] }

\* Potential-category objects with n entries; the i-th key is term i.
CandidateLists(n) ==
  {[i \in 1..n |-> Candidate(i, f[i].count, f[i].firstSeen, f[i].lastSeen)] :
     f \in [1..n -> Profiles]}

FallbackCall ==
  /\ sel.op = "input"
  /\ sel' = [sel EXCEPT
       !.op = "fallback",
       !.selectedTerms =
          fallbackCategorySelection(sel.potentialCategories,
                                    sel.existingSoftCategories, maxTerms)]
  /\ UNCHANGED <<store, lock, dbUp, runs, stops, stopResp, agentResult, resp,
                 agent, reonboard,
                 users, onboard, caller, trigger>>

-----------------------------------------------------------------------------
\* The discovery run: processSingleUser and runDailySoftCategoryAgent of
\* lib/daily-soft-category-agent.js

\* Terms the oracle may name, and users found by one run.
NumTerms == 6
MaxUsers == 2

Terms == 1..NumTerms

RECURSIVE SortedSeq(_)
SortedSeq(S) ==
  IF S = {} THEN <<>>
  ELSE LET m == CHOOSE x \in S : \A y \in S : x <= y
       IN <<m>> \o SortedSeq(S \ {m})

\* parsed.selectedTerms of a Gemini response: any array of terms. Its order
\* plays no part in the agent. The arrays kept: the n first terms for every
\* n (none, some, more than maxTerms), one term, one term named twice.
OracleAnswers ==
  {SortedSeq(1..n) : n \in 0..NumTerms}
    \cup {<<x>> : x \in Terms} \cup {<<x, x>> : x \in Terms}

\* callGeminiJSON resolves with a parsed response, or rejects.
OracleOutcomes ==
  {[kind |-> "throws", selectedTerms |-> <<>>]} \cup
  {[kind |-> "answer", selectedTerms |-> a] : a \in OracleAnswers}

\* analyzePotentialCategories: the fallback when isAIAvailable() is false or
\* the oracle call rejects, otherwise `parsed.selectedTerms || []` as it is.
analyzePotentialCategories(potential, existing, mt, ai, oracle) ==
  IF ~ai \/ oracle.kind = "throws"
    THEN fallbackCategorySelection(potential, existing, mt)
    ELSE oracle.selectedTerms

\* A document of users.users as the agent reads it. malformed: a
\* credentials.softCategories that is no array (or a null entry of
\* potentialSoftCategories), on which processSingleUser raises a TypeError
\* before its try block.
UserDoc(dbName, malformed, potential, softCategories) ==
  [dbName |-> dbName, malformed |-> malformed,
   potentialSoftCategories |-> potential, softCategories |-> softCategories]

\* The documents given to the agent: no, one or two potential terms, with
\* and without the first of them already a soft category; and a malformed one.
UserDocs(dbName) ==
  {UserDoc(dbName, FALSE, p, e) :
     p \in {<<>>, <<Candidate(1, 10, 10, 0)>>,
            <<Candidate(1, 3, 3, 3), Candidate(2, 10, 10, 0)>>},
     e \in {<<>>, <<1>>}}
  \cup {UserDoc(dbName, TRUE, <<>>, <<>>)}

\* The options of the payload that processSingleUser hands to
\* reprocessProducts, as if taken from the defaults of POST /api/reprocess.
IncrementalOptionsDefaults ==
  [reprocessHardCategories |-> TRUE, reprocessSoftCategories |-> TRUE,
   reprocessTypes |-> TRUE, reprocessVariants |-> TRUE,
   reprocessEmbeddings |-> FALSE, reprocessDescriptions |-> FALSE,
   reprocessAll |-> FALSE]

\* payload.options of processSingleUser.
IncrementalOptions ==
  [reprocessHardCategories |-> FALSE, reprocessSoftCategories |-> TRUE,
   reprocessTypes |-> FALSE, reprocessVariants |-> FALSE,
   reprocessEmbeddings |-> FALSE, reprocessDescriptions |-> FALSE,
   reprocessAll |-> FALSE]

\* No reprocessProducts call.
NoOptions == [reprocessSoftCategories |-> FALSE]

\* No call of processSingleUser yet. oracleCalled: callGeminiJSON was
\* called; triggered: reprocessProducts was called, with options and
\* softCategories in its payload.
NoOutcome ==
  [threw |-> FALSE, status |-> "none", reason |-> "none",
   oracleCalled |-> FALSE, triggered |-> FALSE, options |-> NoOptions,
   selectedTerms |-> <<>>, softCategories |-> <<>>]

Skipped(reason, oracleCalled) ==
  [NoOutcome EXCEPT !.status = "skipped", !.reason = reason,
                    !.oracleCalled = oracleCalled]

\* processSingleUser as if the terms were analysed before the check for new
\* terms, and the run triggered whatever the selection.
processSingleUserEager(user, ai, oracle) ==
  IF user.malformed
    THEN [NoOutcome EXCEPT !.threw = TRUE]
    ELSE
      LET existingSoftCategories == user.softCategories
          filteredPotential ==
            SelectSeq(user.potentialSoftCategories,
                      LAMBDA c : c.term \notin Range(existingSoftCategories))
          selectedTerms ==
            analyzePotentialCategories(filteredPotential,
                                       existingSoftCategories, maxTerms,
                                       ai, oracle)
      IN IF Len(filteredPotential) = 0 THEN Skipped("no_new_terms", ai)
         ELSE [NoOutcome EXCEPT
                 !.status = IF Len(selectedTerms) = 0 THEN "skipped"
                                                      ELSE "success",
                 !.reason = IF Len(selectedTerms) = 0
                              THEN "no_suitable_terms" ELSE "none",
                 !.oracleCalled = ai, !.triggered = TRUE,
                 !.options = IncrementalOptions,
                 !.selectedTerms = selectedTerms,
                 !.softCategories = existingSoftCategories \o selectedTerms]

\* processSingleUser(user): the returned result, with what the call did:
\* the oracle called or not, reprocessProducts called or not and with which
\* options and softCategories; threw when the call rejects.
processSingleUser(user, ai, oracle) ==
  IF user.malformed
    THEN [NoOutcome EXCEPT !.threw = TRUE]
    ELSE
      LET existingSoftCategories == user.softCategories
          filteredPotential ==
            SelectSeq(user.potentialSoftCategories,
                      LAMBDA c : c.term \notin Range(existingSoftCategories))
          selectedTerms ==
            analyzePotentialCategories(filteredPotential,
                                       existingSoftCategories, maxTerms,
                                       ai, oracle)
      IN IF Len(filteredPotential) = 0 THEN Skipped("no_new_terms", FALSE)
         ELSE IF Len(selectedTerms) = 0
           THEN Skipped("no_suitable_terms", ai)
         ELSE [NoOutcome EXCEPT
                 !.status = "success", !.oracleCalled = ai,
                 !.triggered = TRUE, !.options = IncrementalOptions,
                 !.selectedTerms = selectedTerms,
                 !.softCategories = existingSoftCategories \o selectedTerms]

\* `results.filter(r => r.status === s).length`.
CountStatus(results, s) ==
  Cardinality({i \in 1..Len(results) : results[i] = s})

\* No summary logged.
NoSummary ==
  [logged |-> FALSE, total |-> 0, successful |-> 0, skipped |-> 0,
   errors |-> 0]

\* The summary as if the first count were not filtered by status.
SummaryUnfiltered(readUsers, results) ==
  [logged |-> TRUE, total |-> Len(readUsers),
   successful |-> Len(results),
   skipped |-> CountStatus(results, "skipped"),
   errors |-> CountStatus(results, "error")]

\* The summary logged after the loop: users.length, and the number of
\* results of each status.
Summary(readUsers, results) ==
  [logged |-> TRUE, total |-> Len(readUsers),
   successful |-> CountStatus(results, "success"),
   skipped |-> CountStatus(results, "skipped"),
   errors |-> CountStatus(results, "error")]

\* The cron task of the scheduler: state of the latest firing, number of
\* firings, number of failures logged by the catch of the callback.
NoTick == [state |-> "none", fired |-> 0, caught |-> 0]

\* No run of the agent yet. users is the array read by the run, stored the
\* softCategories of the same documents in the users collection, results
\* the statuses pushed so far, delays the number of 2 s pauses that have
\* elapsed, last the latest outcome of processSingleUser, summary the
\* summary logged by the run, tick the cron task.
NoAgentRun ==
  [pc |-> "idle", ai |-> TRUE, users |-> <<>>, stored |-> <<>>,
   results |-> <<>>, delays |-> 0, last |-> NoOutcome,
   summary |-> NoSummary, tick |-> NoTick]

\* runDailySoftCategoryAgent up to its loop: it returns at once when
\* isAIAvailable() is false; a rejection of client.connect() or of
\* find(query).toArray() is rethrown by the catch; it returns when no user
\* is found.
StartedAgent ==
  [agent EXCEPT !.pc = IF ~agent.ai THEN "noAI"
                       ELSE IF ~dbUp THEN "aborted"
                       ELSE IF agent.users = <<>> THEN "completed"
                       ELSE "loop"]

\* The run is started by the scheduler.
AgentStart ==
  /\ agent.pc = "idle"
  /\ agent' = StartedAgent
  /\ UNCHANGED <<store, lock, dbUp, runs, stops, stopResp, agentResult, resp,
                 sel, reonboard,
                 users, onboard, caller, trigger>>

\* The loop as if it went on to the next user as soon as the result is
\* pushed.
AfterUserNoDelay(i, n) == IF i = n THEN "completed" ELSE "loop"

\* Where the loop is after `results.push(result)` for user i of n: at
\* `await new Promise(resolve => setTimeout(resolve, 2000))`.
AfterUser(i, n) == "delay"

\* One iteration of `for (const user of users)` up to the push of the
\* result; a rejection of processSingleUser leaves the loop through the
\* outer catch, which rethrows.
AgentUser ==
  /\ agent.pc = "loop"
  /\ \E oracle \in OracleOutcomes :
       LET i == Len(agent.results) + 1
           result == processSingleUser(agent.users[i], agent.ai, oracle)
       IN agent' =
            IF result.threw
              THEN [agent EXCEPT !.pc = "aborted", !.last = result]
              ELSE [agent EXCEPT
                      !.results = Append(@, result.status),
                      !.last = result,
                      !.pc = AfterUser(i, Len(agent.users))]
  /\ UNCHANGED <<store, lock, dbUp, runs, stops, stopResp, agentResult, resp,
                 sel, reonboard,
                 users, onboard, caller, trigger>>

\* The 2 s timer of the iteration fires: the loop takes the next user, or
\* ends after the last one and the summary is logged.
AgentDelay ==
  /\ agent.pc = "delay"
  /\ agent' = [agent EXCEPT
                 !.delays = @ + 1,
                 !.pc = IF Len(agent.results) = Len(agent.users)
                          THEN "completed" ELSE "loop",
                 !.summary = IF Len(agent.results) = Len(agent.users)
                               THEN Summary(agent.users, agent.results)
                               ELSE @]
  /\ UNCHANGED <<store, lock, dbUp, runs, stops, stopResp, agentResult, resp,
                 sel, reonboard,
                 users, onboard, caller, trigger>>

\* The agent before its next run, on the same documents.
NextRun ==
  [agent EXCEPT !.pc = "idle", !.results = <<>>, !.delays = 0,
                !.summary = NoSummary,
                !.users = [i \in 1..Len(agent.users) |->
                   [agent.users[i] EXCEPT
                      !.softCategories = agent.stored[i]]]]

\* The next run, on the same documents.
AgentAgain ==
  /\ agent.pc \in {"completed", "aborted", "noAI"}
  /\ agent' = NextRun
  /\ UNCHANGED <<store, lock, dbUp, runs, stops, stopResp, agentResult, resp,
                 sel, reonboard,
                 users, onboard, caller, trigger>>

-----------------------------------------------------------------------------
\* Re-onboarding: POST /api/onboarding with the API key of a stored user

\* A field that the object does not have (undefined).
Absent == "undefined"

\* JavaScript truthiness of a field value: undefined and "" are falsy.
Falsy(x) == x \in {Absent, ""}

\* a || b
JsOr(a, b) == IF Falsy(a) THEN b ELSE a

\* The fields the handler takes from the stored user when isReOnboarding:
\* dbName and platform from the stored document alone, syncMode,
\* categories and context by `bodyData.x || stored`, explain by
\* `bodyData.explain !== undefined`.
MergedConfig(bodyData, existingUser) ==
  [dbName |-> JsOr(existingUser.dbName, existingUser.credentialsDbName),
   platform |-> JsOr(existingUser.platform,
                     IF Falsy(existingUser.wooUrl) THEN "shopify"
                                                   ELSE "woocommerce"),
   syncMode |-> JsOr(JsOr(bodyData.syncMode, existingUser.syncMode), "full"),
   categories |-> JsOr(JsOr(bodyData.categories, existingUser.categories),
                       "[]"),
   context |-> JsOr(bodyData.context, existingUser.context),
   explain |-> IF bodyData.explain # Absent THEN bodyData.explain
                                            ELSE existingUser.explain]

\* Request bodies: each field absent or given; syncMode and context may be
\* given as the empty string.
Bodies ==
  [dbName : {Absent, "db2"},
   platform : {Absent, "woocommerce"},
   syncMode : {Absent, "", "image"},
   categories : {Absent, "[c]"},
   context : {Absent, "", "body context"},
   explain : {Absent, "false"}]

\* Stored user documents.
StoredUsers ==
  [dbName : {"db1"},
   credentialsDbName : {"db1"},
   platform : {Absent, "shopify"},
   wooUrl : {Absent, "https://shop"},
   syncMode : {Absent, "full"},
   categories : {Absent, "[a,b]"},
   context : {Absent, "stored context"},
   explain : {Absent, "true"}]

NoReOnboarding == [op |-> "none"]

\* The handler's step 1 on the re-onboarding path.
ReOnboard ==
  /\ reonboard.op = "request"
  /\ reonboard' =
       [op |-> "merged", bodyData |-> reonboard.bodyData,
        existingUser |-> reonboard.existingUser,
        merged |-> MergedConfig(reonboard.bodyData, reonboard.existingUser)]
  /\ UNCHANGED <<store, lock, dbUp, runs, stops, stopResp, agentResult, resp,
                 sel, agent,
                 users, onboard, caller, trigger>>

-----------------------------------------------------------------------------
\* POST /api/onboarding: validation, the users.users document, the job

Emails == {"a@shop", "b@shop"}

\* Handlers of POST /api/onboarding that may be in progress at the same time.
MaxRequests == 2

Requests == 1..MaxRequests

\* findOne when no document of users.users matches; `null` in the handler.
NoUser == [missing |-> TRUE]

NoUsers == [e \in Emails |-> NoUser]

\* crypto.randomBytes(32).toString('hex'): a key no stored user has.
generateApiKey(r) == <<"generated", r>>

\* `new Date()` of handler r: no two handlers are given the same instant.
NewDate(r) == <<"date", r>>

\* The credentials object of a stored document. platformCredentials stands
\* for shopifyDomain and shopifyToken, or wooUrl, wooKey and wooSecret:
\* absent as soon as one of them is.
Credentials(pc, cats, type, soft, dbName, potential) ==
  [platformCredentials |-> pc, categories |-> cats, type |-> type,
   softCategories |-> soft, dbName |-> dbName,
   potentialSoftCategories |-> potential]

\* A document of users.users.
StoredUser(email, apiKey, dbName, platform, credentials, complete, trial) ==
  [email |-> email, apiKey |-> apiKey, dbName |-> dbName,
   platform |-> platform, credentials |-> credentials,
   onboardingComplete |-> complete, trialStartedAt |-> trial,
   trialStatus |-> IF trial = Absent THEN Absent ELSE "active",
   updatedAt |-> trial, softCategories |-> Absent]

UserFields ==
  {"email", "apiKey", "dbName", "platform", "credentials",
   "onboardingComplete", "trialStartedAt", "trialStatus", "updatedAt",
   "softCategories"}

\* users.updateOne({ email }, { $set: updateData }, { upsert: true }): every
\* top-level field of updateData replaces the stored one, credentials as one
\* value; the other fields stay; with no document, one is inserted from the
\* filter and updateData.
updateOne(doc, email, updateData) ==
  [f \in UserFields |->
     IF f \in DOMAIN updateData THEN updateData[f]
     ELSE IF doc # NoUser THEN doc[f]
     ELSE IF f = "email" THEN email
     ELSE Absent]

\* usersCollection.findOne({ apiKey }): the lookup of step 0, skipped
\* without an API key.
FindByApiKey(apiKey) ==
  IF ~Falsy(apiKey) /\ \E e \in Emails :
                          users[e] # NoUser /\ users[e].apiKey = apiKey
    THEN users[CHOOSE e \in Emails :
                 users[e] # NoUser /\ users[e].apiKey = apiKey]
    ELSE NoUser

\* A complete first-time request body.
CompleteBody(email, dbName, platform) ==
  [userEmail |-> email, dbName |-> dbName, platform |-> platform,
   platformCredentials |-> "credentials", categories |-> "[c]",
   type |-> "[t]", softCategories |-> "[s]"]

\* The fields the spec requires of the body of a first-time request.
RequiredFields == {"dbName", "platformCredentials", "categories", "type"}

\* Request bodies: complete ones, one required field or the e-mail absent,
\* a platform that is neither shopify nor woocommerce.
OnboardingBodies ==
  {CompleteBody(e, "db1", "shopify") : e \in Emails}
  \cup {CompleteBody("a@shop", "db2", "woocommerce")}
  \cup {[CompleteBody("a@shop", "db1", "shopify") EXCEPT ![f] = Absent] :
          f \in RequiredFields \cup {"userEmail"}}
  \cup {CompleteBody("a@shop", "db1", "magento")}

\* x-api-key of the request: none, the key of a stored user, another key.
ApiKeys == {Absent, "key-a", "key-x"}

\* Step 1 as if the arrays of the body were added to the stored ones.
ExtractConfigMerging(bodyData, existingUser) ==
  LET Concat(a, b) == IF Falsy(a) \/ a = "[]" THEN b
                      ELSE IF Falsy(b) \/ b = "[]" THEN a
                      ELSE a \o "+" \o b
  IN
  IF existingUser # NoUser
    THEN [userEmail |-> existingUser.email,
          dbName |-> JsOr(existingUser.dbName,
                          existingUser.credentials.dbName),
          platform |-> JsOr(existingUser.platform, "shopify"),
          platformCredentials |->
            JsOr(bodyData.platformCredentials,
                 existingUser.credentials.platformCredentials),
          categories |-> JsOr(Concat(existingUser.credentials.categories,
                                     bodyData.categories), "[]"),
          type |-> JsOr(Concat(existingUser.credentials.type,
                               bodyData.type), "[]"),
          softCategories |->
            JsOr(Concat(existingUser.credentials.softCategories,
                        bodyData.softCategories), "[]")]
    ELSE bodyData

\* Step 1: the values the handler works with. With a stored user found by
\* API key they come from the document, the body overriding some of them;
\* otherwise from the body alone. A stored document without platform is
\* taken for shopify unless its credentials hold a wooUrl; the documents
\* written by the handler all have a platform.
ExtractConfig(bodyData, existingUser) ==
  IF existingUser # NoUser
    THEN [userEmail |-> existingUser.email,
          dbName |-> JsOr(existingUser.dbName,
                          existingUser.credentials.dbName),
          platform |-> JsOr(existingUser.platform, "shopify"),
          platformCredentials |->
            JsOr(bodyData.platformCredentials,
                 existingUser.credentials.platformCredentials),
          categories |-> JsOr(JsOr(bodyData.categories,
                                   existingUser.credentials.categories),
                              "[]"),
          type |-> JsOr(JsOr(bodyData.type, existingUser.credentials.type),
                        "[]"),
          softCategories |->
            JsOr(JsOr(bodyData.softCategories,
                      existingUser.credentials.softCategories),
                 "[]")]
    ELSE bodyData

\* The validations as if the answer of the platform were not consulted.
ValidateTrusting(cfg, isValidCredentials) ==
  IF Falsy(cfg.dbName) THEN [status |-> 400, error |-> "missing dbName"]
  ELSE IF Falsy(cfg.userEmail)
    THEN [status |-> 400, error |-> "missing userEmail"]
  ELSE IF cfg.platform \notin {"shopify", "woocommerce"}
    THEN [status |-> 400, error |-> "Invalid platform"]
  ELSE IF Falsy(cfg.platformCredentials)
    THEN [status |-> 401, error |-> "Invalid credentials"]
  ELSE [status |-> 0, error |-> "none"]

\* Steps 2 and 3: the early returns of the handler. isValidCredentials is
\* the answer of validateShopifyCredentials / validateWooCredentials, which
\* catch every error and return false. Status 0: the handler goes on.
Validate(cfg, isValidCredentials) ==
  IF Falsy(cfg.dbName) THEN [status |-> 400, error |-> "missing dbName"]
  ELSE IF Falsy(cfg.userEmail)
    THEN [status |-> 400, error |-> "missing userEmail"]
  ELSE IF cfg.platform \notin {"shopify", "woocommerce"}
    THEN [status |-> 400, error |-> "Invalid platform"]
  ELSE IF Falsy(cfg.platformCredentials) \/ ~isValidCredentials
    THEN [status |-> 401, error |-> "Invalid credentials"]
  ELSE [status |-> 0, error |-> "none"]

\* `if (!apiKey) { apiKey = existingUser?.apiKey || generateApiKey() }` on
\* `const apiKey`: the assignment to a constant raises a TypeError.
AssignApiKey(apiKey, existingUser, r) ==
  LET value == IF existingUser # NoUser /\ ~Falsy(existingUser.apiKey)
                 THEN existingUser.apiKey
                 ELSE generateApiKey(r)
  IN IF Falsy(apiKey) THEN [threw |-> TRUE, apiKey |-> value]
                      ELSE [threw |-> FALSE, apiKey |-> apiKey]

\* updateData of step 4; the trial fields only when isFirstTimeOnboarding.
UpdateData(cfg, apiKey, isFirstTimeOnboarding, r) ==
  LET base ==
        [email |-> cfg.userEmail, apiKey |-> apiKey,
         credentials |-> Credentials(cfg.platformCredentials, cfg.categories,
                                     cfg.type, cfg.softCategories,
                                     cfg.dbName, Absent),
         onboardingComplete |-> TRUE, dbName |-> cfg.dbName,
         platform |-> cfg.platform, updatedAt |-> NewDate(r)]
  IN IF isFirstTimeOnboarding
       THEN base @@ [trialStartedAt |-> NewDate(r), trialStatus |-> "active"]
       ELSE base

NoUpdate == [email |-> Absent]

\* A handler not yet called.
NoRequest ==
  [pc |-> "idle", apiKey |-> Absent, bodyData |-> NoUser,
   isReOnboarding |-> FALSE, isValidCredentials |-> FALSE,
   existingUser |-> NoUser, cfg |-> NoUser, isFirstTimeOnboarding |-> FALSE,
   updateData |-> NoUpdate, status |-> 0, error |-> "none",
   returnedKey |-> Absent]

NoOnboarding == [r \in Requests |-> NoRequest]

\* The response is sent: the handler is over.
Respond(req, status, error, key) ==
  [req EXCEPT !.pc = "responded", !.status = status, !.error = error,
              !.returnedKey = key]

\* The request arrives, with an API key of keys and a body of bodies:
\* lookup by API key, step 1, and the validations of steps 2 and 3 with
\* their early returns.
OnboardingReceive(r, keys, bodies) ==
  /\ onboard[r].pc = "idle"
  /\ \A q \in Requests : q < r => onboard[q].pc # "idle"
  /\ \E apiKey \in keys, bodyData \in bodies, valid \in BOOLEAN :
       LET existingUser == FindByApiKey(apiKey)
           cfg == ExtractConfig(bodyData, existingUser)
           v == Validate(cfg, valid)
           req == [onboard[r] EXCEPT !.apiKey = apiKey,
                                     !.bodyData = bodyData,
                                     !.existingUser = existingUser,
                                     !.isReOnboarding =
                                        existingUser # NoUser,
                                     !.isValidCredentials = valid,
                                     !.cfg = cfg]
       IN onboard' = [onboard EXCEPT ![r] =
            IF v.status # 0 THEN Respond(req, v.status, v.error, Absent)
                            ELSE [req EXCEPT !.pc = "validated"]]
  /\ UNCHANGED <<store, lock, dbUp, runs, stops, stopResp, agentResult, resp,
                 sel, agent, reonboard, users, caller, trigger>>

\* Step 4 up to the write: findOne({ email }) unless the user was found by
\* API key, isFirstTimeOnboarding, the API key, updateData.
OnboardingFind(r) ==
  /\ onboard[r].pc = "validated"
  /\ LET req == onboard[r]
         existingUser == IF req.existingUser = NoUser
                           THEN users[req.cfg.userEmail]
                           ELSE req.existingUser
         isFirstTimeOnboarding ==
           ~(existingUser # NoUser /\ existingUser.onboardingComplete = TRUE)
         k == AssignApiKey(req.apiKey, existingUser, r)
     IN onboard' = [onboard EXCEPT ![r] =
          IF k.threw
            THEN Respond(req, 500, "Something went wrong", Absent)
            ELSE [req EXCEPT
                    !.pc = "persist",
                    !.existingUser = existingUser,
                    !.isFirstTimeOnboarding = isFirstTimeOnboarding,
                    !.updateData =
                       UpdateData(req.cfg, k.apiKey, isFirstTimeOnboarding,
                                  r)]]
  /\ UNCHANGED <<store, lock, dbUp, runs, stops, stopResp, agentResult, resp,
                 sel, agent, reonboard, users, caller, trigger>>

\* Step 4, the write: updateOne with upsert.
OnboardingPersist(r) ==
  /\ onboard[r].pc = "persist"
  /\ LET email == onboard[r].cfg.userEmail
     IN users' = [users EXCEPT ![email] =
                    updateOne(users[email], email, onboard[r].updateData)]
  /\ onboard' = [onboard EXCEPT ![r].pc = "persisted"]
  /\ UNCHANGED <<store, lock, dbUp, runs, stops, stopResp, agentResult, resp,
                 sel, agent, reonboard, caller, trigger>>

\* Step 5: setJobState(dbName, "running"); a rejection ends in the outer
\* catch.
OnboardingRun(r) ==
  /\ onboard[r].pc = "persisted"
  /\ LET w == AwaitSetJobState(onboard[r].cfg.dbName, "running")
     IN /\ store' = w.store
        /\ onboard' = [onboard EXCEPT ![r] =
             IF w.threw
               THEN Respond(@, 500, "Something went wrong", Absent)
               ELSE [@ EXCEPT !.pc = "running"]]
  /\ UNCHANGED <<lock, dbUp, runs, stops, stopResp, agentResult, resp,
                 sel, agent, reonboard, users, caller, trigger>>

\* The sync returns or throws: the terminal state is written and the
\* response sent, with the API key when the sync returned.
OnboardingSettle(r) ==
  /\ onboard[r].pc = "running"
  /\ \E ok \in BOOLEAN :
       LET w == AwaitSetJobState(onboard[r].cfg.dbName,
                                 IF ok THEN "done" ELSE "error")
       IN /\ store' = w.store
          /\ onboard' = [onboard EXCEPT ![r] =
               IF w.threw
                 THEN Respond(@, 500, "Something went wrong", Absent)
               ELSE IF ok
                 THEN Respond(@, 200, "none", @.updateData.apiKey)
               ELSE Respond(@, 500, "sync error", Absent)]
  /\ UNCHANGED <<lock, dbUp, runs, stops, stopResp, agentResult, resp,
                 sel, agent, reonboard, users, caller, trigger>>

\* No authenticated request, no manual trigger.
NoCaller == [email |-> Absent, dbName |-> Absent]

NoTrigger ==
  [response |-> [code |-> 0, status |-> "none"], background |-> "none"]

-----------------------------------------------------------------------------
\* POST /api/soft-category-agent/run: the manual trigger

\* res.json({ message, status: 'running', triggeredBy, triggeredAt }).
TriggerResponse == [code |-> 200, status |-> "running"]

\* The promise of the run as if the handler attached no .catch to it.
OnSettledNoCatch(pc) ==
  IF pc = "aborted" THEN "unhandled rejection" ELSE "completion logged"

\* The promise of runDailySoftCategoryAgent() settles: .then logs the
\* completion, .catch logs the failure.
OnSettled(pc) ==
  IF pc = "aborted" THEN "failure logged" ELSE "completion logged"

\* The handler: the run is started and not awaited, the response is sent.
ManualTrigger ==
  /\ agent.pc = "idle"
  /\ trigger.background # "pending"
  /\ agent' = StartedAgent
  /\ trigger' = [response |-> TriggerResponse, background |-> "pending"]
  /\ UNCHANGED <<store, lock, dbUp, runs, stops, stopResp, agentResult, resp,
                 sel, reonboard, users, onboard, caller>>

\* The background run has ended: one of the two callbacks runs.
TriggerSettle ==
  /\ trigger.background = "pending"
  /\ agent.pc \in {"completed", "aborted", "noAI"}
  /\ trigger' = [trigger EXCEPT !.background = OnSettled(agent.pc)]
  /\ UNCHANGED <<store, lock, dbUp, runs, stops, stopResp, agentResult, resp,
                 sel, agent, reonboard, users, onboard, caller>>

-----------------------------------------------------------------------------
\* POST /api/reprocess: the soft categories of the request

\* The arrays of soft categories of the requests, and their elements.
ArrayElements ==
  [a \in {"[]", "[s]", "[n]", "[s,n]", "[n,s]"} |->
     CASE a = "[]" -> <<>>
       [] a = "[s]" -> <<"s">>
       [] a = "[n]" -> <<"n">>
       [] a = "[s,n]" -> <<"s", "n">>
       [] a = "[n,s]" -> <<"n", "s">>]

\* [...new Set([...a, ...b])]: the elements of a, then those of b, each at
\* its first occurrence.
MergeArrays(a, b) ==
  LET all == ArrayElements[a] \o ArrayElements[b]
      first == SelectSeq([i \in 1..Len(all) |-> <<i, all[i]>>],
                         LAMBDA p : \A j \in 1..(p[1] - 1) : all[j] # p[2])
      merged == [i \in 1..Len(first) |-> first[i][2]]
  IN CHOOSE r \in DOMAIN ArrayElements : ArrayElements[r] = merged

\* Bodies of POST /api/reprocess: softCategories given or not,
\* incrementalMode set or not, incrementalSoftCategories absent, empty or
\* one term.
ReprocessBodies ==
  [softCategories : {Absent, "[n]", "[s]"},
   incrementalMode : BOOLEAN,
   incrementalSoftCategories : {Absent, "[]", "[n]", "[s]"}]

\* req.user of the authentication middleware: e-mail, API key, platform,
\* dbName and credentials of the stored document, without its top-level
\* softCategories.
ReqUser(doc) ==
  [email |-> doc.email, apiKey |-> doc.apiKey, platform |-> doc.platform,
   dbName |-> doc.dbName, credentials |-> doc.credentials]

\* users.updateOne({ dbName }, { $set: { softCategories } }): the top-level
\* field of the first document of that dbName.
SetSoftCategories(dbName, mergedCategories) ==
  IF \E e \in Emails : users[e] # NoUser /\ users[e].dbName = dbName
    THEN LET e == CHOOSE e \in Emails :
                    users[e] # NoUser /\ users[e].dbName = dbName
         IN [users EXCEPT ![e].softCategories = mergedCategories]
    ELSE users

\* The handler of POST /api/reprocess for the authenticated user of e-mail e:
\* finalSoftCategories from the body or from req.user.credentials, the merge
\* of incremental mode and its write to the user document, the write of
\* "running", the payload of the background run; resp keeps what the body
\* gave and the softCategories of the payload.
ReprocessRequest(e, body) ==
  /\ users[e] # NoUser
  /\ BagCardinality(runs) < MaxRuns
  /\ LET user == ReqUser(users[e])
         dbName == user.dbName
         storedSoftCategories == JsOr(user.credentials.softCategories, "[]")
         incremental ==
           /\ body.incrementalMode
           /\ ~Falsy(body.incrementalSoftCategories)
           /\ Len(ArrayElements[body.incrementalSoftCategories]) > 0
         given == JsOr(body.softCategories, storedSoftCategories)
         finalSoftCategories ==
           IF incremental
             THEN MergeArrays(given, body.incrementalSoftCategories)
             ELSE given
         w == AwaitSetJobState(dbName, "running")
     IN /\ users' = IF incremental /\ dbUp
                      THEN SetSoftCategories(dbName, finalSoftCategories)
                      ELSE users
        /\ store' = w.store
        /\ runs' = IF w.threw THEN runs
                              ELSE runs (+) One(NewRun("reprocess", dbName))
        /\ resp' = [op |-> "reprocess", key |-> dbName,
                    code |-> IF w.threw THEN 500 ELSE 200,
                    body |-> [email |-> e,
                              given |-> body.softCategories,
                              incremental |-> incremental,
                              softCategories |-> finalSoftCategories]]
  /\ UNCHANGED <<lock, dbUp, stops, stopResp, agentResult, sel, agent,
                 reonboard, onboard, caller, trigger>>

-----------------------------------------------------------------------------
\* The scheduler: cron.schedule('0 2 * * *') of lib/scheduler.js

\* The cron callback as if it had no try/catch around the awaited run.
OnTickNoCatch(pc) ==
  IF pc = "aborted" THEN "unhandled rejection" ELSE "completion logged"

\* The cron callback after `await runDailySoftCategoryAgent()`: the
\* completion is logged, or the catch logs the failure.
OnTick(pc) ==
  IF pc = "aborted" THEN "failure logged" ELSE "completion logged"

\* The cron task fires: the callback starts a run of the agent on the
\* documents as they are stored. An unhandled rejection ends the process,
\* and the task with it.
ScheduledTick ==
  /\ agent.pc \in {"idle", "completed", "aborted", "noAI"}
  /\ agent.tick.state \in {"none", "completion logged", "failure logged"}
  /\ agent.tick.fired < MaxTicks
  /\ agent' = [NextRun EXCEPT !.pc = StartedAgent.pc,
                              !.tick.state = "running",
                              !.tick.fired = @ + 1]
  /\ UNCHANGED <<store, lock, dbUp, runs, stops, stopResp, agentResult, resp,
                 sel, reonboard, users, onboard, caller, trigger>>

\* The awaited run has settled: the callback logs and returns.
TickSettle ==
  /\ agent.tick.state = "running"
  /\ agent.pc \in {"completed", "aborted", "noAI"}
  /\ agent' = [agent EXCEPT
                 !.tick.state = OnTick(agent.pc),
                 !.tick.caught = IF OnTick(agent.pc) = "failure logged"
                                   THEN @ + 1 ELSE @]
  /\ UNCHANGED <<store, lock, dbUp, runs, stops, stopResp, agentResult, resp,
                 sel, reonboard, users, onboard, caller, trigger>>

-----------------------------------------------------------------------------
\* The authenticated requests: start, stop, status, logs

\* The stored users whose API key authenticates the requests.
Callers ==
  {[email |-> "a@shop", dbName |-> "db1"],
   [email |-> "b@shop", dbName |-> "db2"]}

\* The key as the older handlers took it: `const { dbName } = req.body`.
ReqDbNameFromBody(user, bodyDbName) == bodyDbName

\* `const dbName = req.user.dbName`: the key of a request is that of the
\* authenticated user, whatever the body says.
ReqDbName(user, bodyDbName) == user.dbName

-----------------------------------------------------------------------------
\* The database becomes unreachable, and reachable again.
DbDown ==
  /\ dbUp
  /\ dbUp' = FALSE
  /\ UNCHANGED <<store, lock, runs, stops, stopResp, agentResult, resp,
                 sel, agent, reonboard,
                 users, onboard, caller, trigger>>

DbRestore ==
  /\ ~dbUp
  /\ dbUp' = TRUE
  /\ UNCHANGED <<store, lock, runs, stops, stopResp, agentResult, resp,
                 sel, agent, reonboard,
                 users, onboard, caller, trigger>>

-----------------------------------------------------------------------------
\* Specifications

\* No sync_status document, no handler running; the lock files are whatever
\* the temporary directory holds.
Init ==
  /\ store = [k \in Keys |-> NoDocument]
  /\ lock \in [Keys -> BOOLEAN]
  /\ dbUp = TRUE
  /\ runs = EmptyBag
  /\ stops = EmptyBag
  /\ stopResp = NoStopResp
  /\ agentResult = NoResult
  /\ resp = NoResp
  /\ users = NoUsers
  /\ onboard = NoOnboarding
  /\ caller = NoCaller
  /\ trigger = NoTrigger
  /\ sel = NoSelection
  /\ agent = NoAgentRun
  /\ reonboard = NoReOnboarding

Next ==
  \/ \E k \in Keys : ReprocessStart(k)
  \/ \E d \in InFlight : ReprocessDone(d)
  \/ \E k \in Keys : StopAccess(k)
  \/ \E s \in Stopping : StopUnlink(s)
  \/ \E s \in Stopping : StopWrite(s)
  \/ \E k \in Keys : OnboardStart(k)
  \/ \E d \in InFlight : OnboardDone(d)
  \/ \E d \in InFlight : OnboardFail(d)

\* The request handlers, the database reachable throughout.
Spec == Init /\ [][Next]_vars

NextAgent ==
  \/ Next
  \/ \E k \in Keys : DiscoveryRun(k)

\* The request handlers and the discovery engine's runs.
SpecAgent == Init /\ [][NextAgent]_vars

NextFault ==
  \/ Next
  \/ \E d \in InFlight : ReprocessCatch(d)
  \/ \E d \in InFlight : OnboardCatch(d)
  \/ DbDown
  \/ DbRestore

\* The database may fail and recover at any moment.
SpecFault == Init /\ [][NextFault]_vars

NextWriteFault ==
  \/ \E k \in Keys : ReprocessStart(k)
  \/ \E d \in InFlight : ReprocessDone(d)
  \/ \E d \in InFlight : ReprocessCatch(d)
  \/ DbDown
  \/ DbRestore

\* The start handler and the background run of routes/reprocess.js, callers
\* of setJobState, with the database failing and recovering at any moment.
SpecWriteFault == Init /\ [][NextWriteFault]_vars

\* Reads of the job state, over every record the handlers can have written.
InitRead ==
  /\ store \in [Keys -> {NoDocument} \cup
                  {JobRecord(s, 0, 0, 0) : s \in {"running"} \cup Terminal}]
  /\ lock = [k \in Keys |-> FALSE]
  /\ dbUp \in BOOLEAN
  /\ runs = EmptyBag
  /\ stops = EmptyBag
  /\ stopResp = NoStopResp
  /\ agentResult = NoResult
  /\ resp = NoResp
  /\ users = NoUsers
  /\ onboard = NoOnboarding
  /\ caller = NoCaller
  /\ trigger = NoTrigger
  /\ sel = NoSelection
  /\ agent = NoAgentRun
  /\ reonboard = NoReOnboarding

NextRead ==
  \/ \E k \in Keys : GetJobState(k)
  \/ \E k \in Keys : StatusRequest(k)
  \/ \E k \in Keys : LogsRequest(k)

SpecRead == InitRead /\ [][NextRead]_vars

\* fallbackCategorySelection applied to every potential-category object of
\* up to MaxCandidates entries and a few existingSoftCategories arrays.
InitFallback ==
  /\ store = [k \in Keys |-> NoDocument]
  /\ lock = [k \in Keys |-> FALSE]
  /\ dbUp = TRUE
  /\ runs = EmptyBag
  /\ stops = EmptyBag
  /\ stopResp = NoStopResp
  /\ agentResult = NoResult
  /\ resp = NoResp
  /\ users = NoUsers
  /\ onboard = NoOnboarding
  /\ caller = NoCaller
  /\ trigger = NoTrigger
  /\ agent = NoAgentRun
  /\ reonboard = NoReOnboarding
  /\ \E n \in 0..MaxCandidates :
       \E p \in CandidateLists(n) :
         \E e \in {<<>>, <<1>>, <<1, 2>>} :
           sel = [op |-> "input", potentialCategories |-> p,
                  existingSoftCategories |-> e, selectedTerms |-> <<>>]

NextFallback == FallbackCall

SpecFallback == InitFallback /\ [][NextFallback]_vars

\* Runs of the agent over every list of up to MaxUsers user documents, with
\* the Google AI client initialised or not.
InitDiscovery ==
  /\ store = [k \in Keys |-> NoDocument]
  /\ lock = [k \in Keys |-> FALSE]
  /\ dbUp = TRUE
  /\ runs = EmptyBag
  /\ stops = EmptyBag
  /\ stopResp = NoStopResp
  /\ agentResult = NoResult
  /\ resp = NoResp
  /\ users = NoUsers
  /\ onboard = NoOnboarding
  /\ caller = NoCaller
  /\ trigger = NoTrigger
  /\ sel = NoSelection
  /\ reonboard = NoReOnboarding
  /\ \E n \in 0..MaxUsers :
       \E u \in [1..n -> UserDocs("db")] :
         \E ai \in BOOLEAN :
           agent = [NoAgentRun EXCEPT
                      !.ai = ai, !.users = u,
                      !.stored = [i \in 1..n |-> u[i].softCategories]]

NextDiscovery ==
  \/ AgentStart
  \/ AgentUser
  \/ AgentDelay
  \/ AgentAgain

SpecDiscovery == InitDiscovery /\ [][NextDiscovery]_vars

\* The re-onboarding merge on every stored user and request body.
InitReOnboard ==
  /\ store = [k \in Keys |-> NoDocument]
  /\ lock = [k \in Keys |-> FALSE]
  /\ dbUp = TRUE
  /\ runs = EmptyBag
  /\ stops = EmptyBag
  /\ stopResp = NoStopResp
  /\ agentResult = NoResult
  /\ resp = NoResp
  /\ users = NoUsers
  /\ onboard = NoOnboarding
  /\ caller = NoCaller
  /\ trigger = NoTrigger
  /\ sel = NoSelection
  /\ agent = NoAgentRun
  /\ \E b \in Bodies : \E u \in StoredUsers :
       reonboard = [op |-> "request", bodyData |-> b, existingUser |-> u]

NextReOnboard == ReOnboard

SpecReOnboard == InitReOnboard /\ [][NextReOnboard]_vars

\* The users collection before the requests: no document, or the document
\* of a user onboarded earlier with API key "key-a", whose credentials hold
\* potentialSoftCategories or not.
InitOnboard ==
  /\ store = [k \in Keys |-> NoDocument]
  /\ lock = [k \in Keys |-> FALSE]
  /\ dbUp = TRUE
  /\ runs = EmptyBag
  /\ stops = EmptyBag
  /\ stopResp = NoStopResp
  /\ agentResult = NoResult
  /\ resp = NoResp
  /\ sel = NoSelection
  /\ agent = NoAgentRun
  /\ reonboard = NoReOnboarding
  /\ onboard = NoOnboarding
  /\ caller = NoCaller
  /\ trigger = NoTrigger
  /\ \E potential \in {Absent, "observed"} :
       users \in {NoUsers,
                  [NoUsers EXCEPT !["a@shop"] =
                     StoredUser("a@shop", "key-a", "db1", "shopify",
                                Credentials("credentials", "[c]", "[t]",
                                            "[s]", "db1", potential),
                                TRUE, "date0")]}

NextOnboard ==
  \/ \E r \in Requests : OnboardingReceive(r, ApiKeys, OnboardingBodies)
  \/ \E r \in Requests : OnboardingFind(r)
  \/ \E r \in Requests : OnboardingPersist(r)
  \/ \E r \in Requests : OnboardingRun(r)
  \/ \E r \in Requests : OnboardingSettle(r)

\* Up to MaxRequests handlers of POST /api/onboarding, interleaved at their
\* database operations.
SpecOnboard == InitOnboard /\ [][NextOnboard]_vars

\* Bodies with and without platform credentials, otherwise complete.
CredentialBodies ==
  {CompleteBody("a@shop", "db1", "shopify"),
   [CompleteBody("a@shop", "db1", "shopify") EXCEPT
      !.platformCredentials = Absent]}

NextCredentials ==
  \/ \E r \in Requests :
       OnboardingReceive(r, {"key-a", "key-x"}, CredentialBodies)
  \/ \E r \in Requests : OnboardingFind(r)
  \/ \E r \in Requests : OnboardingPersist(r)
  \/ \E r \in Requests : OnboardingRun(r)
  \/ \E r \in Requests : OnboardingSettle(r)

\* The same handlers on requests that differ in their platform credentials
\* and in the answer of the platform.
SpecCredentials == InitOnboard /\ [][NextCredentials]_vars


\* The array-valued fields of the body.
ArrayFields == {"categories", "type", "softCategories"}

\* Bodies of re-onboarding requests: complete ones in which categories is
\* the empty array, type an array other than the stored one, and
\* softCategories absent, empty or another array.
ArrayBodies ==
  {[CompleteBody("a@shop", "db1", "shopify") EXCEPT !.categories = "[]"],
   [CompleteBody("a@shop", "db1", "shopify") EXCEPT !.type = "[d]"]}
  \cup {[CompleteBody("a@shop", "db1", "shopify") EXCEPT
           !.softCategories = v] : v \in {Absent, "[]", "[d]"}}

NextArrays ==
  \/ \E r \in Requests : OnboardingReceive(r, {"key-a"}, ArrayBodies)
  \/ \E r \in Requests : OnboardingFind(r)
  \/ \E r \in Requests : OnboardingPersist(r)
  \/ \E r \in Requests : OnboardingRun(r)
  \/ \E r \in Requests : OnboardingSettle(r)

\* The user onboarded earlier is stored, with observed terms.
InitArrays ==
  /\ InitOnboard
  /\ users["a@shop"] # NoUser
  /\ users["a@shop"].credentials.potentialSoftCategories = "observed"

\* The same handlers on requests of a stored user that differ in their
\* arrays.
SpecArrays == InitArrays /\ [][NextArrays]_vars

\* The key whose record carries logs.
LogKeys == {"db1"}

\* The record of one key, absent or left with its logs by an earlier run,
\* and the lock file of the key, there or not.
InitLogs ==
  /\ store \in [Keys -> {NoDocument, LoggedRecord}]
  /\ store["db2"] = NoDocument
  /\ lock \in [Keys -> BOOLEAN]
  /\ ~lock["db2"]
  /\ dbUp = TRUE
  /\ runs = EmptyBag
  /\ stops = EmptyBag
  /\ stopResp = NoStopResp
  /\ agentResult = NoResult
  /\ resp = NoResp
  /\ users = NoUsers
  /\ onboard = NoOnboarding
  /\ caller = NoCaller
  /\ trigger = NoTrigger
  /\ sel = NoSelection
  /\ agent = NoAgentRun
  /\ reonboard = NoReOnboarding

NextLogs ==
  \/ \E k \in LogKeys : ReprocessStart(k)
  \/ \E d \in InFlight : ReprocessDone(d)
  \/ \E k \in LogKeys : AppendLog(k)
  \/ \E k \in LogKeys : StopAccess(k)
  \/ \E s \in Stopping : StopUnlink(s)
  \/ \E s \in Stopping : StopWrite(s)

\* Starts, runs that log, and stops on one key.
SpecLogs == InitLogs /\ [][NextLogs]_vars

NextIncremental ==
  \/ \E e \in Emails, body \in ReprocessBodies : ReprocessRequest(e, body)
  \/ \E d \in InFlight : ReprocessDone(d)

\* The user onboarded earlier is stored, with no soft categories, an empty
\* array or one term.
InitIncremental ==
  /\ store = [k \in Keys |-> NoDocument]
  /\ lock = [k \in Keys |-> FALSE]
  /\ dbUp = TRUE
  /\ runs = EmptyBag
  /\ stops = EmptyBag
  /\ stopResp = NoStopResp
  /\ agentResult = NoResult
  /\ resp = NoResp
  /\ sel = NoSelection
  /\ agent = NoAgentRun
  /\ reonboard = NoReOnboarding
  /\ onboard = NoOnboarding
  /\ caller = NoCaller
  /\ trigger = NoTrigger
  /\ \E soft \in {Absent, "[]", "[s]"} :
       users = [NoUsers EXCEPT !["a@shop"] =
                  StoredUser("a@shop", "key-a", "db1", "shopify",
                             Credentials("credentials", "[c]", "[t]",
                                         soft, "db1", Absent),
                             TRUE, "date0")]

\* Reprocess requests of a stored user, in incremental mode or not.
SpecIncremental == InitIncremental /\ [][NextIncremental]_vars

\* Runs of the agent started by the manual trigger, over the same user
\* documents as SpecDiscovery.
NextTrigger ==
  \/ ManualTrigger
  \/ AgentUser
  \/ AgentDelay
  \/ TriggerSettle
  \/ AgentAgain

SpecTrigger == InitDiscovery /\ [][NextTrigger]_vars

NextSchedule ==
  \/ ScheduledTick
  \/ AgentUser
  \/ AgentDelay
  \/ TickSettle
  \/ DbDown
  \/ DbRestore

\* Runs of the agent fired by the cron task, over the same user documents
\* as SpecDiscovery, with the database failing and recovering at any moment.
SpecSchedule == InitDiscovery /\ [][NextSchedule]_vars

\* One authenticated user sends requests, with any dbName in the body, on a
\* store and a temporary directory that hold the records and lock files of
\* both keys.
InitAuth ==
  /\ store \in [Keys -> {NoDocument} \cup
                  {JobRecord(s, 0, 0, 0) : s \in {"running"} \cup Terminal}]
  /\ lock \in [Keys -> BOOLEAN]
  /\ dbUp = TRUE
  /\ runs = EmptyBag
  /\ stops = EmptyBag
  /\ stopResp = NoStopResp
  /\ agentResult = NoResult
  /\ resp = NoResp
  /\ sel = NoSelection
  /\ agent = NoAgentRun
  /\ reonboard = NoReOnboarding
  /\ users = NoUsers
  /\ onboard = NoOnboarding
  /\ trigger = NoTrigger
  /\ caller \in Callers

NextAuth ==
  \/ \E b \in Keys : ReprocessStart(ReqDbName(caller, b))
  \/ \E d \in InFlight : ReprocessDone(d)
  \/ \E b \in Keys : StopAccess(ReqDbName(caller, b))
  \/ \E s \in Stopping : StopUnlink(s)
  \/ \E s \in Stopping : StopWrite(s)
  \/ \E b \in Keys : StatusRequest(ReqDbName(caller, b))
  \/ \E b \in Keys : LogsRequest(ReqDbName(caller, b))

SpecAuth == InitAuth /\ [][NextAuth]_vars

-----------------------------------------------------------------------------
\* Properties

\* The state a reader sees for key k in store st ("idle" without a document).
StateIn(st, k) == IF st[k] = NoDocument THEN "idle" ELSE st[k].state

LegalTransition(a, b) ==
  \/ a = b
  \/ a = "idle" /\ b = "running"
  \/ a = "running" /\ b \in Terminal
  \/ a \in Terminal /\ b = "running"

\* C1: for every key the recorded state changes only along idle->running,
\* running->running, running->{done,error,stopped} and terminal->running;
\* never idle->terminal, never one terminal state to another.
C1_LegalTransitions ==
  [][\A k \in Keys : LegalTransition(StateIn(store, k), StateIn(store', k))]_vars

\* Nothing is pending for key k after the step: no run in flight, no stop
\* handler in progress.
SettledNext(k) ==
  /\ \A e \in BagToSet(runs') : e.key # k
  /\ \A s \in BagToSet(stops') : s.key # k

\* C2: a reprocess run whose lock file a stop request removed while it was in
\* flight leaves, once it has ended and nothing else is pending for the key,
\* the record in state stopped (not done).
C2_StoppedRunEndsStopped ==
  [][\A d \in InFlight :
       (d.kind = "reprocess" /\ d.stopSeen /\ ReprocessDone(d)
          /\ SettledNext(d.key))
         => StateIn(store', d.key) = "stopped"]_vars

\* C3: a read (getJobState, status endpoint, logs endpoint) of a key without
\* a stored record never answers not-found, and answers exactly
\* {state: idle, progress: 0, done: 0, total: 0} when the database answers.
C3_DefaultState ==
  (resp.op # "none" /\ store[resp.key] = NoDocument)
    => /\ resp.code # 404
       /\ dbUp => (resp.code = 200 /\ resp.body = JobRecord("idle", 0, 0, 0))

\* C3 happens: getJobState answered for a key without a record.
C3_Witness ==
  /\ resp.op = "getJobState"
  /\ store[resp.key] = NoDocument
  /\ resp.code = 200

C5_DoneRecord ==
  [][\A d \in InFlight :
       (ReprocessDone(d) /\ dbUp)
         => /\ ~lock'[d.key]
            /\ store'[d.key] =
                 JobRecord("done", 100, ReprocessItems, ReprocessItems)]_vars

\* C6: when a run ends through its failure path (the catch block of the
\* background run, or of the onboarding sync), the record's state becomes
\* error and the key's lock file is absent afterwards.
C6_ErrorDisarms ==
  [][\A d \in InFlight :
       ((ReprocessCatch(d) \/ OnboardFail(d) \/ OnboardCatch(d)) /\ dbUp)
         => /\ StateIn(store', d.key) = "error"
            /\ ~lock'[d.key]]_vars

\* C7: while a reprocess run is in flight and no stop request has removed its
\* key's lock file since the run started, the lock file exists.
C7_ArmedWhileRunning ==
  \A d \in InFlight :
    (d.kind = "reprocess" /\ ~d.stopSeen) => lock[d.key]

\* C8: no stop request is answered with an error, and a stop request that
\* finds the lock file already removed (at fs.access or at fs.unlink) answers
\* "already stopped or finished" and changes neither a record nor a lock file.
C8_StopIdempotent ==
  /\ [](stopResp.code # 500)
  /\ [][\A k \in Keys :
          (StopAccess(k) /\ ~lock[k])
            => /\ stopResp' = StopAlready(k)
               /\ UNCHANGED <<store, lock,
                              users, onboard, caller, trigger>>]_vars
  /\ [][\A s \in Stopping :
          (StopUnlink(s) /\ ~lock[s.key])
            => /\ stopResp' = StopAlready(s.key)
               /\ UNCHANGED <<store, lock,
                              users, onboard, caller, trigger>>]_vars

\* C8 happens, overlapping: a stop request has removed the lock file and not
\* yet written, and another one for the same key was answered "already".
C8_Witness ==
  \E s \in Stopping : s.pc = "write" /\ stopResp = StopAlready(s.key)

\* C9: a stop request that arrives when the key's record is done or error and
\* no run is in flight leaves the record as it is.
C9_StopAfterRunNoOp ==
  [][\A s \in Stopping :
       (/\ s.afterRun
        /\ RunsInFlight(s.key) = {}
        /\ StateIn(store, s.key) \in {"done", "error"}
        /\ StopWrite(s))
         => store'[s.key] = store[s.key]]_vars

\* C10: once a started run (reprocess, onboarding, discovery) is over and no
\* other run is in flight for its key, the store holds a terminal state for
\* the key; a key without a run in flight is never read as running.
C10_TerminalRecorded ==
  /\ (agentResult.status = "success" /\ RunsInFlight(agentResult.dbName) = {})
       => StateIn(store, agentResult.dbName) \in Terminal
  /\ \A k \in Keys : RunsInFlight(k) = {} => StateIn(store, k) # "running"

\* C11: at most one run is in flight per key, and a record in a terminal
\* state never coexists with a run of its key still in flight.
C11_OneActivePerKey ==
  \A k \in Keys :
    /\ \A d, e \in RunsInFlight(k) : d = e /\ CopiesIn(d, runs) = 1
    /\ StateIn(store, k) \in Terminal => RunsInFlight(k) = {}

\* C12: when the write inside setJobState is rejected, the caller sees the
\* failure (the start handler launches no run, the background run enters its
\* catch block) and the stored record is as it was before the call.
C12_WriteFailurePropagates ==
  /\ [][~dbUp => store' = store]_vars
  /\ [][\A k \in Keys :
          (ReprocessStart(k) /\ ~dbUp) => runs' = runs]_vars
  /\ [][\A d \in InFlight :
          (ReprocessDone(d) /\ ~dbUp)
            => [d EXCEPT !.pc = "catch"] \in BagToSet(runs')]_vars

\* C12 happens: a background run's write of "done" was rejected, the run is
\* in its catch block and the record still reads running.
C12_Witness ==
  /\ ~dbUp
  /\ \E d \in InFlight : d.pc = "catch" /\ StateIn(store, d.key) = "running"

NoDuplicates(s) == Cardinality(Range(s)) = Len(s)

\* C13: the terms a success of processSingleUser merges contain no term of
\* the user's existing soft categories and no term twice.
C13_SelectionFiltered ==
  [][(AgentUser /\ agent'.last.status = "success") =>
       LET user == agent.users[Len(agent.results) + 1] IN
         /\ Range(agent'.last.selectedTerms) \cap Range(user.softCategories)
              = {}
         /\ NoDuplicates(agent'.last.selectedTerms)]_vars

\* C14: the set of terms selected for a user has at most 5 elements.
C14_AtMostMaxTerms ==
  Cardinality(Range(agent.last.selectedTerms)) <= 5

\* C15: a run of the agent that ended without a failure of a user, the
\* oracle available or not, has processed every user that has potential
\* terms.
C15_OracleNeverFatal ==
  agent.pc \in {"noAI", "completed"} =>
    \A i \in 1..Len(agent.users) :
      agent.users[i].potentialSoftCategories # <<>>
        => i <= Len(agent.results)

\* The claimed score of a candidate, in tenths:
\* 0.5*count + 0.3*max(0, 100 - daysSince(lastSeen))
\*           + 0.2*min(100, 2*daysBetween(firstSeen, lastSeen)).
ClaimedScore(c) ==
  LET since == c.lastSeen
      between == c.firstSeen - c.lastSeen
  IN 5 * c.count
       + 3 * (IF 100 - since > 0 THEN 100 - since ELSE 0)
       + 2 * (IF 2 * between < 100 THEN 2 * between ELSE 100)

\* Candidate c goes before candidate d in the claimed ranking: higher score,
\* or the same score and earlier in the input.
RanksBefore(c, d) ==
  \/ ClaimedScore(c) > ClaimedScore(d)
  \/ ClaimedScore(c) = ClaimedScore(d) /\ c.term < d.term

C17_MergeIdempotent ==
  [][/\ (AgentUser /\ agent'.last.status = "success")
          => NoDuplicates(agent'.last.softCategories)
     /\ \A i \in 1..Len(agent.stored) :
          /\ i <= Len(agent'.stored)
          /\ Range(agent.stored[i]) \subseteq Range(agent'.stored[i])]_vars

\* C18: after a success of processSingleUser for a user, the user's stored
\* soft categories contain every selected term.
C18_MergePersisted ==
  (agent.last.status = "success" /\ Len(agent.results) >= 1) =>
    Range(agent.last.selectedTerms)
      \subseteq Range(agent.stored[Len(agent.results)])

\* C19: a failure of processSingleUser on one user never ends the run: the
\* run completes with a result for every user.
C19_FailureIsolated ==
  /\ agent.pc # "aborted"
  /\ agent.pc = "completed" => Len(agent.results) = Len(agent.users)

ConfigFields ==
  {"dbName", "platform", "syncMode", "categories", "context", "explain"}

\* C20: on the re-onboarding path every field of the merged configuration
\* holds the body's value when the body has the field, and the stored value
\* when the body has not and the stored user has.
C20_PayloadOverridesStored ==
  reonboard.op = "merged" =>
    \A f \in ConfigFields :
      /\ reonboard.bodyData[f] # Absent
           => reonboard.merged[f] = reonboard.bodyData[f]
      /\ (reonboard.bodyData[f] = Absent /\ reonboard.existingUser[f] # Absent)
           => reonboard.merged[f] = reonboard.existingUser[f]

-----------------------------------------------------------------------------
\* First-time onboarding

\* C21: the trial marker (trialStartedAt, trialStatus) of an identity is
\* written at most once: once a document holds it, no later write of any
\* onboarding, sequential or overlapping, changes it.
C21_TrialMarkerWrittenOnce ==
  [][\A e \in Emails :
       (users[e] # NoUser /\ users[e].trialStartedAt # Absent) =>
         /\ users'[e] # NoUser
         /\ users'[e].trialStartedAt = users[e].trialStartedAt
         /\ users'[e].trialStatus = users[e].trialStatus]_vars

\* C22: the onboarding upsert never clears a stored field that the update
\* does not carry: credentials.potentialSoftCategories of a stored user
\* survives every write.
C22_UpsertKeepsObservations ==
  [][\A e \in Emails :
       users[e] # NoUser =>
         users'[e].credentials.potentialSoftCategories =
           users[e].credentials.potentialSoftCategories]_vars

\* C23: a first-time request whose body lacks the resource key, the
\* platform credentials, the category list or the type list, or names an
\* invalid platform, is rejected with a validation error: its handler never
\* goes past the validations.
C23_IncompleteRejected ==
  \A r \in Requests :
    (/\ onboard[r].pc # "idle"
     /\ ~onboard[r].isReOnboarding
     /\ \/ \E f \in RequiredFields : Falsy(onboard[r].bodyData[f])
        \/ onboard[r].bodyData.platform \notin {"shopify", "woocommerce"})
    => (onboard[r].pc = "responded" /\ onboard[r].status \in {400, 401})

\* The request reaches the credentials check of a valid platform and fails
\* it: credentials missing, or refused by the platform.
CredentialsRefused(req) ==
  /\ req.pc # "idle"
  /\ ~Falsy(req.cfg.dbName)
  /\ ~Falsy(req.cfg.userEmail)
  /\ req.cfg.platform \in {"shopify", "woocommerce"}
  /\ (Falsy(req.cfg.platformCredentials) \/ ~req.isValidCredentials)

\* C24: a request whose platform credentials fail validation is rejected
\* before any job starts: the only step of its handler is the 401 response,
\* and that step changes no sync_status document, no users document and no
\* lock file.
C24_BadCredentialsRejected ==
  [][\A r \in Requests :
       (CredentialsRefused(onboard'[r]) /\ onboard'[r] # onboard[r]) =>
         /\ onboard[r].pc = "idle"
         /\ onboard'[r].pc = "responded"
         /\ onboard'[r].status = 401
         /\ UNCHANGED <<store, users, lock>>]_vars

\* A request is refused for its credentials while another one has written
\* its user document and its job record.
C24_Witness ==
  \E r \in Requests :
    /\ CredentialsRefused(onboard[r])
    /\ ~Falsy(onboard[r].cfg.platformCredentials)
    /\ onboard[r].status = 401
    /\ \E q \in Requests : onboard[q].pc = "running"
    /\ store[onboard[r].cfg.dbName] # NoDocument
    /\ users[onboard[r].cfg.userEmail] # NoUser

\* C25: a first-time request with a complete, valid body and no API key
\* succeeds: a new API key is generated and stored with the configuration,
\* the job runs to a terminal state (or is running again for a later
\* request on the same key), and the key is returned.
C25_FirstTimeWithoutKey ==
  \A r \in Requests :
    (/\ onboard[r].pc = "responded"
     /\ Falsy(onboard[r].apiKey)
     /\ ~onboard[r].isReOnboarding
     /\ onboard[r].isValidCredentials
     /\ \A f \in DOMAIN onboard[r].bodyData :
          ~Falsy(onboard[r].bodyData[f])
     /\ onboard[r].bodyData.platform \in {"shopify", "woocommerce"})
    => /\ users[onboard[r].cfg.userEmail] # NoUser
       /\ ~Falsy(users[onboard[r].cfg.userEmail].apiKey)
       /\ getJobState(onboard[r].cfg.dbName).state
            \in Terminal \cup {"running"}
       /\ onboard[r].status = 200 => ~Falsy(onboard[r].returnedKey)

-----------------------------------------------------------------------------
\* The discovery run and its trigger

\* C26: the manual trigger acknowledges without waiting for the run: the
\* response is sent in the step that starts the run, it is the same
\* whatever the run does later, and a failure of the run ends in the
\* handler's .catch, never in an error response or an unhandled rejection.
C26_TriggerAcknowledges ==
  /\ [](trigger.response \in {NoTrigger.response, TriggerResponse})
  /\ [](trigger.background # "unhandled rejection")
  /\ [][/\ trigger'.response # trigger.response =>
             (agent.pc = "idle" /\ agent'.results = <<>>)
        /\ trigger.background = "pending" =>
             trigger'.response = trigger.response]_vars

\* The response was sent, and the run it started has failed.
C26_Witness ==
  /\ trigger.response = TriggerResponse
  /\ trigger.background = "failure logged"
  /\ agent.pc = "aborted"

\* A step of the loop that calls processSingleUser: the only step the agent
\* takes at the head of its loop.
ProcessesUser == agent.pc = "loop" /\ agent' # agent

\* C27: within one run the users are handled one at a time in list order:
\* processSingleUser is called for user k+1 only after the call for user k
\* has returned and the delay after it has elapsed.
C27_OneAtATimeInOrder ==
  [][ProcessesUser =>
       LET i == Len(agent.results) + 1
       IN /\ agent.delays = i - 1
          /\ agent'.delays = agent.delays
          /\ \/ agent'.last.threw /\ agent'.results = agent.results
             \/ agent'.results = Append(agent.results, agent'.last.status)
          /\ agent'.last.softCategories \in
               {<<>>, agent.users[i].softCategories
                        \o agent'.last.selectedTerms}]_vars

\* The second user of a run has been processed, after one delay.
C27_Witness ==
  /\ Len(agent.results) = 2
  /\ agent.delays = 1
  /\ agent.pc = "delay"

\* C28: every incremental run triggered by the agent has the soft-category
\* step enabled and every other option disabled.
C28_OnlySoftCategoryStep ==
  agent.last.triggered =>
    \A o \in DOMAIN agent.last.options :
      agent.last.options[o] = (o = "reprocessSoftCategories")

\* A run was triggered, with the seven options in its payload.
C28_Witness ==
  /\ agent.last.triggered
  /\ agent.last.status = "success"
  /\ Cardinality(DOMAIN agent.last.options) = 7

\* C29: the requests of an authenticated user change only the job record
\* and the lock file of that user's stored dbName, and read only that
\* record, whatever dbName the request carries.
C29_OwnKeyOnly ==
  [][/\ \A k \in Keys \ {caller.dbName} :
          store'[k] = store[k] /\ lock'[k] = lock[k]
     /\ resp' # resp => resp'.key = caller.dbName]_vars

\* The user's run was stopped, and the record and lock file of the other
\* key are still those of a running job.
C29_Witness ==
  /\ caller \in Callers
  /\ stopResp = StopSent(caller.dbName)
  /\ store[caller.dbName] = JobRecord("stopped", 0, 0, 0)
  /\ ~lock[caller.dbName]
  /\ \E k \in Keys \ {caller.dbName} :
       lock[k] /\ store[k] = JobRecord("running", 0, 0, 0)

\* The terms of the potential categories of a user document are all among
\* its soft categories.
AllActive(user) ==
  \A j \in 1..Len(user.potentialSoftCategories) :
    user.potentialSoftCategories[j].term \in Range(user.softCategories)

\* C30: a user whose observations are all active already is skipped with
\* no_new_terms and the oracle is not called; an empty selection is skipped
\* with no_suitable_terms; in both cases no incremental run is triggered and
\* the stored soft categories stay as they are.
C30_SkippedWithoutRun ==
  [][ProcessesUser =>
       LET user == agent.users[Len(agent.results) + 1]
           result == agent'.last
       IN /\ (~user.malformed /\ AllActive(user)) =>
               /\ result.status = "skipped"
               /\ result.reason = "no_new_terms"
               /\ ~result.oracleCalled
          /\ (~user.malformed /\ ~AllActive(user) /\ ~result.threw
                /\ result.selectedTerms = <<>>) =>
               /\ result.status = "skipped"
               /\ result.reason = "no_suitable_terms"
          /\ result.status = "skipped" =>
               /\ ~result.triggered
               /\ agent'.stored = agent.stored
               /\ UNCHANGED <<store, runs>>]_vars

\* Both skips have happened in one run: the first user had nothing new, the
\* second an empty selection from the oracle.
C30_Witness ==
  /\ Len(agent.results) = 2
  /\ agent.results[1] = "skipped"
  /\ AllActive(agent.users[1])
  /\ agent.last.reason = "no_suitable_terms"
  /\ agent.last.oracleCalled

C32_UnreachableAtStart ==
  /\ [][(agent'.tick.fired # agent.tick.fired /\ agent.ai /\ ~dbUp)
          => (agent'.pc = "aborted" /\ agent'.results = <<>>)]_vars
  /\ [][(agent.pc = "aborted" /\ agent.results = <<>>)
          => agent'.results = <<>>]_vars
  /\ [][(agent.tick.state = "running" /\ agent.pc = "aborted"
           /\ agent'.tick # agent.tick)
          => agent'.tick.state = "failure logged"]_vars
  /\ [](agent.tick.state # "unhandled rejection")

\* The task has fired a second time, after a run that failed at its start
\* and whose failure was logged, and this run is processing the users.
C32_Witness ==
  /\ agent.tick.caught = 1
  /\ agent.tick.fired = 2
  /\ agent.tick.state = "running"
  /\ agent.pc = "loop"
  /\ agent.last = NoOutcome

\* C33: when a re-onboarding request is persisted, each of categories, type
\* and softCategories that the body holds, the empty array included, is
\* stored in the credentials exactly as the body gave it.
C33_ArraysOverride ==
  [][\A r \in Requests :
       (/\ onboard[r].pc = "persist"
        /\ onboard'[r].pc = "persisted"
        /\ onboard[r].isReOnboarding)
       => \A f \in ArrayFields :
            onboard[r].bodyData[f] # Absent
              => users'[onboard[r].cfg.userEmail].credentials[f]
                   = onboard[r].bodyData[f]]_vars

\* A re-onboarding request with an empty softCategories array has been
\* persisted for a user whose stored softCategories were not empty.
C33_Witness ==
  \E r \in Requests :
    /\ onboard[r].pc = "persisted"
    /\ onboard[r].isReOnboarding
    /\ onboard[r].bodyData.softCategories = "[]"
    /\ onboard[r].existingUser.credentials.softCategories = "[s]"
    /\ users[onboard[r].cfg.userEmail].credentials.softCategories = "[]"

\* C34: every record of the job state store has a progress from 0 to 100, a
\* done and a total that are not negative, and a done that does not exceed
\* the total once the total is positive.
C34_CountersInRange ==
  \A k \in Keys :
    store[k] # NoDocument =>
      /\ store[k].progress \in 0..100
      /\ store[k].done >= 0
      /\ store[k].total >= 0
      /\ (store[k].total > 0 => store[k].done <= store[k].total)

\* A run has completed on one key and a stop has been recorded on the
\* other, no handler in progress.
C34_Witness ==
  /\ store["db1"] # NoDocument
  /\ store["db2"] # NoDocument
  /\ store["db1"].state = "done"
  /\ store["db2"].state = "stopped"
  /\ runs = EmptyBag
  /\ stops = EmptyBag

\* C35: once a request in incremental mode has written its merged soft
\* categories to the user document, a request of the same user that gives
\* no softCategories and is not incremental runs with the merged set.
C35_MergedSetReadBack ==
  [][\A e \in Emails :
       (/\ users[e] # NoUser
        /\ ~Falsy(users[e].softCategories)
        /\ resp'.op = "reprocess"
        /\ BagCardinality(runs') > BagCardinality(runs)
        /\ resp'.body.email = e
        /\ resp'.body.given = Absent
        /\ ~resp'.body.incremental)
       => resp'.body.softCategories = users[e].softCategories]_vars

\* C36: no step of an onboarding request changes the API key stored for a
\* user who has one.
C36_StoredKeyKept ==
  [][\A e \in Emails :
       (users[e] # NoUser /\ ~Falsy(users[e].apiKey))
         => (users'[e] # NoUser /\ users'[e].apiKey = users[e].apiKey)]_vars

\* C37: a stop request that is answered with an error has removed no lock
\* file, unless the record of its key has been written "stopped": the
\* removal of the lock file and the write of "stopped" come together.
C37_StopAllOrNothing ==
  [][\A s \in Stopping :
       (/\ stops' = stops (-) One(s)
        /\ stopResp' = StopError(s.key)
        /\ s.pc = "write")
       => (/\ store'[s.key] # NoDocument
           /\ store'[s.key].state = "stopped")]_vars

\* C38: the terms returned by fallbackCategorySelection are pairwise
\* distinct, each is a key of the potential categories it was given, and
\* none is in existingSoftCategories.
C38_FallbackTermsSound ==
  sel.op = "fallback" =>
    LET t == sel.selectedTerms IN
      /\ \A i, j \in 1..Len(t) : i # j => t[i] # t[j]
      /\ \A i \in 1..Len(t) :
           /\ \E c \in Range(sel.potentialCategories) : c.term = t[i]
           /\ t[i] \notin Range(sel.existingSoftCategories)

\* The scorer has returned terms for an input of which two keys were in
\* existingSoftCategories.
C38_Witness ==
  /\ sel.op = "fallback"
  /\ sel.existingSoftCategories = <<1, 2>>
  /\ Len(sel.potentialCategories) = 4
  /\ Len(sel.selectedTerms) = 2

\* The fields named by the $set of setJobState.
SetFields == {"state", "progress", "done", "total"}

====
